---- MODULE Spec2Model ----
(***************************************************************************)
(* Model of tap_appstore/__init__.py: the incremental sync of the daily    *)
(* sales report (sync, query_report, get_bookmark, tsv_to_list, main).     *)
(*                                                                         *)
(* Time is counted in hours since an arbitrary midnight.  A formatted      *)
(* date-time string is a record [wf, date, tod, padded]: wf says whether   *)
(* the text matches %Y-%m-%dT%H:%M:%SZ, date is the calendar day, tod the  *)
(* hour of the day and padded whether the fields are zero-padded (strptime *)
(* accepts both, strftime always pads).  A text is a sequence of           *)
(* one-character strings.                                                  *)
(***************************************************************************)
EXTENDS Integers, Sequences, FiniteSets, TLC

VARIABLES
    pc,              \* position of the process in main/sync/query_report
    config,          \* Context.config['start_date']
    state,           \* Context.state (in memory)
    persisted,       \* the last state message written (the resume point)
    clock,           \* the wall clock read by singer.utils.now()
    bookmark,        \* query_report: bookmark
    extraction_time, \* query_report: extraction_time
    iterator,        \* query_report: iterator
    rep,             \* query_report: rep
    index,           \* query_report: index of the row being processed
    new_counts,      \* Context.new_counts['summary_sales_report']
    fetchLog,        \* calls of api.sales_report made by the current run
    emitted,         \* record messages written by the current run
    stateWrites,     \* state messages written by the current run
    events,          \* order of the messages and calls of the current run
    input,           \* the state the current run was started from
    runs,            \* number of runs started
    fetched,         \* per calendar day: number of fetches over all runs
    doneDays,        \* calendar days fully emitted by some run
    doneBefore,      \* doneDays when the current run started
    allOk,           \* no run so far failed or was killed
    crashDay,        \* day in process when the previous run was killed, or NoDay
    logged,          \* kinds of log lines written by the current run
    origin,          \* the state the first run was started from
    arg_tsv,         \* tsv_to_list: the text handed to the parser on its own
    data             \* tsv_to_list: the list it returned

vars == <<pc, config, state, persisted, clock, bookmark, extraction_time,
          iterator, rep, index, new_counts, fetchLog, emitted, stateWrites,
          events, input, runs, fetched, doneDays, doneBefore, allOk, crashDay,
          logged, origin, arg_tsv, data>>

(* ------------------------------ bounds --------------------------------- *)
MaxDay == 2          \* the clock stops at the end of calendar day MaxDay
MaxRuns == 2         \* number of runs of the process
MaxLen == 6          \* length of the texts handed to the parser on its own

(* ----------------------------- constants ------------------------------- *)
DayHours == 24
\* granularity of the clock readings: half a day
TickHours == DayHours \div 2
NoTime == -1
NoDay == -1

stream_name == "summary_sales_report"
OtherStream == "other_stream"

(* ------------------------- date-time strings --------------------------- *)
DateStr(d, h, p) == [wf |-> TRUE, date |-> d, tod |-> h, padded |-> p]
Malformed == [wf |-> FALSE, date |-> 0, tod |-> 0, padded |-> FALSE]

\* a parser that takes whatever digits it finds
strptime_lenient(s) == s.date * DayHours + s.tod

\* datetime.strptime(s, "%Y-%m-%dT%H:%M:%SZ"): NoTime stands for ValueError
strptime(s) == IF s.wf THEN s.date * DayHours + s.tod ELSE NoTime

\* iterator.strftime(BOOKMARK_DATE_FORMAT)
strftime_bookmark(t) == DateStr(t \div DayHours, t % DayHours, TRUE)

\* iterator.strftime("%Y-%m-%d")
strftime_date(t) == t \div DayHours

\* timedelta(days=1)
delta == DayHours

(* ------------------------- tabular text parser ------------------------- *)
Whitespace == {" ", "\t", "\n", "\r"}

\* str.split(sep): the pieces between the occurrences of sep, at least one
RECURSIVE split(_, _)
split(s, sep) ==
    IF \A i \in 1..Len(s) : s[i] # sep
    THEN <<s>>
    ELSE LET i == CHOOSE j \in 1..Len(s) :
                      s[j] = sep /\ \A m \in 1..(j - 1) : s[m] # sep
         IN <<SubSeq(s, 1, i - 1)>> \o split(SubSeq(s, i + 1, Len(s)), sep)

\* str.lower() followed by str.replace(' ', '_'), one character at a time
lower_char(c) == IF c = "A" THEN "a" ELSE IF c = "B" THEN "b" ELSE c
header_name(s) ==
    [i \in 1..Len(s) |-> IF lower_char(s[i]) = " " THEN "_" ELSE lower_char(s[i])]

\* str.strip()
RECURSIVE lstrip(_)
lstrip(s) == IF s # <<>> /\ Head(s) \in Whitespace THEN lstrip(Tail(s)) ELSE s
RECURSIVE rstrip(_)
rstrip(s) ==
    IF s # <<>> /\ s[Len(s)] \in Whitespace
    THEN rstrip(SubSeq(s, 1, Len(s) - 1)) ELSE s
strip(s) == rstrip(lstrip(s))

\* the body of "for i, column in enumerate(header)": the mapping of one line;
\* a repeated column name keeps the value of its last position
line_obj(header, line) ==
    LET line_cols == split(line, "\t")
        used == {i \in 1..Len(header) : i <= Len(line_cols)}
        last(k) == CHOOSE i \in used :
                       header[i] = k /\ \A j \in used : header[j] = k => j <= i
    IN [k \in {header[i] : i \in used} |-> strip(line_cols[last(k)])]

\* data.insert(0, line_obj) in place of data.append(line_obj)
RECURSIVE parse_lines_reversed(_, _, _)
parse_lines_reversed(header, lines, keep_empty) ==
    IF lines = <<>> THEN <<>>
    ELSE IF Len(Head(lines)) = 0 /\ ~keep_empty
         THEN parse_lines_reversed(header, Tail(lines), keep_empty)
         ELSE parse_lines_reversed(header, Tail(lines), keep_empty)
                  \o <<line_obj(header, Head(lines))>>

RECURSIVE parse_lines(_, _, _)
parse_lines(header, lines, keep_empty) ==
    IF lines = <<>> THEN <<>>
    ELSE IF Len(Head(lines)) = 0 /\ ~keep_empty
         THEN parse_lines(header, Tail(lines), keep_empty)
         ELSE <<line_obj(header, Head(lines))>>
                  \o parse_lines(header, Tail(lines), keep_empty)

tsv_header(tsv) ==
    LET cols == split(split(tsv, "\n")[1], "\t")
    IN [i \in 1..Len(cols) |-> header_name(cols[i])]

\* tsv_to_list without the "if len(line) == 0: continue"
tsv_to_list_keep_empty(tsv) ==
    parse_lines(tsv_header(tsv), Tail(split(tsv, "\n")), TRUE)

tsv_to_list(tsv) ==
    parse_lines(tsv_header(tsv), Tail(split(tsv, "\n")), FALSE)

\* the texts the report fetcher answers with
EmptyText == <<>>
HeaderText == <<"A", " ", "B", "\t", "B">>
HeaderLineText == <<"A", " ", "B", "\t", "B", "\n">>
RowsText == <<"A", " ", "B", "\t", "B", "\n",
              "a", "\t", " ", "b", "\n", "\n", "b">>
ReportTexts == {EmptyText, HeaderText, HeaderLineText, RowsText}

(* --------------------------- singer state ------------------------------ *)
\* a state is [bookmarks |-> stream -> value of its start_date key,
\*             other |-> the rest of the document]
EmptyBookmarks == [s \in {} |-> Malformed]
OneBookmark(name, val) == [s \in {name} |-> val]

\* singer.get_bookmark(state, name, 'start_date') is None
no_bookmark(st, name) == name \notin DOMAIN st.bookmarks

\* get_bookmark(name)
get_bookmark(st, cfg, name) ==
    IF no_bookmark(st, name) THEN cfg ELSE st.bookmarks[name]

\* a write_bookmark that builds the bookmarks afresh
write_bookmark_reset(st, name, val) ==
    [st EXCEPT !.bookmarks = OneBookmark(name, val)]

\* singer.write_bookmark(state, stream_name, 'start_date', val)
write_bookmark(st, name, val) ==
    [st EXCEPT !.bookmarks =
        [s \in DOMAIN st.bookmarks \cup {name} |->
            IF s = name THEN val ELSE st.bookmarks[s]]]

\* the value query_report hands to write_bookmark: the day just processed
bookmark_value_skip(it) == strftime_bookmark(it + 2 * delta)
bookmark_value_now(it) == strftime_bookmark(extraction_time)
bookmark_value(it) == strftime_bookmark(it)

\* data['line_id'] = index
line_id_running(i) == new_counts + 1
line_id_of(i) == i

\* the test of the while loop
loop_test_no_delta(it, et) == it <= et
loop_test_clock(it, et) == it + delta <= clock
loop_test_strict(it, et) == it + delta < et
loop_test(it, et) == it + delta <= et

(* ------------------------------ inputs --------------------------------- *)
StartDates == {DateStr(0, 0, TRUE), DateStr(0, 12, FALSE), Malformed}
InputStates ==
    { [bookmarks |-> EmptyBookmarks, other |-> "none"],
      [bookmarks |-> OneBookmark(stream_name, DateStr(1, 0, TRUE)), other |-> "none"],
      [bookmarks |-> OneBookmark(OtherStream, DateStr(0, 0, TRUE)), other |-> "extra"],
      [bookmarks |-> OneBookmark(stream_name, Malformed), other |-> "none"] }

Days == 0..MaxDay
MaxClock == MaxDay * DayHours + TickHours
Running == {"get_bookmark", "now", "loop", "fetch", "rows",
            "write_state", "advance", "final"}
Stopped == {"idle", "done", "failed", "killed"}
InDay == {"fetch", "rows", "write_state"}

\* number of record messages of the current run for calendar day d
EmittedFor(d) == Cardinality({j \in DOMAIN emitted : emitted[j].day = d})
\* the current run fetched day d and emitted every row of the text it got
FullyEmitted(d) ==
    \E i \in DOMAIN fetchLog :
        /\ fetchLog[i].day = d
        /\ fetchLog[i].ok
        /\ EmittedFor(d) = Len(tsv_to_list(fetchLog[i].text))

(* ------------------------------ actions -------------------------------- *)
Init ==
    /\ pc = "idle"
    /\ config \in StartDates
    /\ persisted \in InputStates
    /\ (no_bookmark(persisted, stream_name) /\ persisted.other = "none")
           \/ config = DateStr(0, 0, TRUE)
    /\ state = [bookmarks |-> EmptyBookmarks, other |-> "none"]
    /\ clock = 0
    /\ bookmark = NoTime
    /\ extraction_time = NoTime
    /\ iterator = NoTime
    /\ rep = <<>>
    /\ index = 0
    /\ new_counts = 0
    /\ fetchLog = <<>>
    /\ emitted = <<>>
    /\ stateWrites = <<>>
    /\ events = <<>>
    /\ input = persisted
    /\ runs = 0
    /\ fetched = [d \in Days |-> 0]
    /\ doneDays = {}
    /\ doneBefore = {}
    /\ allOk = TRUE
    /\ crashDay = NoDay
    /\ logged = {}
    /\ origin = persisted
    /\ arg_tsv = <<>>
    /\ data = <<>>

\* the clock advances between runs and while a fetch is in progress
Tick ==
    /\ pc \in Stopped \cup {"fetch"}
    /\ clock + TickHours <= MaxClock
    /\ clock' = clock + TickHours
    /\ UNCHANGED <<pc, config, state, persisted, bookmark, extraction_time,
                   iterator, rep, index, new_counts, fetchLog, emitted,
                   stateWrites, events, input, runs, fetched, doneDays,
                   doneBefore, allOk, crashDay>>
    /\ UNCHANGED <<logged, origin, arg_tsv, data>>

\* main (Context.state = args.state) and sync (counts set to 0)
StartRun ==
    /\ pc \in Stopped
    /\ runs < MaxRuns
    /\ runs' = runs + 1
    /\ state' = persisted
    /\ input' = persisted
    /\ new_counts' = 0
    /\ bookmark' = NoTime
    /\ extraction_time' = NoTime
    /\ iterator' = NoTime
    /\ rep' = <<>>
    /\ index' = 0
    /\ fetchLog' = <<>>
    /\ emitted' = <<>>
    /\ stateWrites' = <<>>
    /\ events' = <<>>
    /\ logged' = {}
    /\ doneBefore' = doneDays
    /\ pc' = "get_bookmark"
    /\ UNCHANGED <<config, persisted, clock, fetched, doneDays, allOk, crashDay>>
    /\ UNCHANGED <<origin, arg_tsv, data>>

\* an uncaught exception reaches utils.handle_top_exception, which logs it
Fail ==
    /\ pc' = "failed"
    /\ allOk' = FALSE
    /\ crashDay' = NoDay
    /\ logged' = logged \cup {"critical"}

\* bookmark = datetime.strptime(get_bookmark(stream_name), ...)
ParseBookmark ==
    /\ pc = "get_bookmark"
    /\ LET t == strptime(get_bookmark(state, config, stream_name))
       IN IF t = NoTime
          THEN /\ Fail
               /\ UNCHANGED bookmark
          ELSE /\ bookmark' = t
               /\ pc' = "now"
               /\ UNCHANGED <<allOk, crashDay, logged>>
    /\ UNCHANGED <<config, state, persisted, clock, extraction_time, iterator,
                   rep, index, new_counts, fetchLog, emitted, stateWrites,
                   events, input, runs, fetched, doneDays, doneBefore>>
    /\ UNCHANGED <<origin, arg_tsv, data>>

\* extraction_time = singer.utils.now(); iterator = bookmark
CaptureTime ==
    /\ pc = "now"
    /\ extraction_time' = clock
    /\ iterator' = bookmark
    /\ pc' = "loop"
    /\ UNCHANGED <<config, state, persisted, clock, bookmark, rep, index,
                   new_counts, fetchLog, emitted, stateWrites, events, input,
                   runs, fetched, doneDays, doneBefore, allOk, crashDay>>
    /\ UNCHANGED <<logged, origin, arg_tsv, data>>

\* while iterator + delta <= extraction_time
LoopTest ==
    /\ pc = "loop"
    /\ pc' = IF loop_test(iterator, extraction_time) THEN "fetch" ELSE "final"
    /\ UNCHANGED <<config, state, persisted, clock, bookmark, extraction_time,
                   iterator, rep, index, new_counts, fetchLog, emitted,
                   stateWrites, events, input, runs, fetched, doneDays,
                   doneBefore, allOk, crashDay>>
    /\ UNCHANGED <<logged, origin, arg_tsv, data>>

\* the fetch with its exception caught and taken for a day without data
fetch_error_swallowed ==
    /\ pc = "fetch"
    /\ LET day == strftime_date(iterator)
       IN /\ fetched' = [fetched EXCEPT ![day] = @ + 1]
          /\ \/ \E rep_tsv \in ReportTexts :
                  /\ fetchLog' = Append(fetchLog,
                        [day |-> day, at |-> iterator, ok |-> TRUE, text |-> rep_tsv])
                  /\ rep' = tsv_to_list(rep_tsv)
                  /\ index' = 1
                  /\ events' = Append(events, "F")
                  /\ pc' = "rows"
                  /\ UNCHANGED <<allOk, crashDay, logged>>
             \/ /\ fetchLog' = Append(fetchLog,
                        [day |-> day, at |-> iterator, ok |-> FALSE, text |-> <<>>])
                /\ rep' = <<>>
                /\ index' = 1
                /\ pc' = "rows"
                /\ UNCHANGED <<events, allOk, crashDay, logged>>
    /\ UNCHANGED <<config, state, persisted, clock, bookmark, extraction_time,
                   iterator, new_counts, emitted, stateWrites, input, runs,
                   doneDays, doneBefore>>
    /\ UNCHANGED <<origin, arg_tsv, data>>

\* rep_tsv = api.sales_report(..., iterator_str, '1_0'); rep = tsv_to_list(rep_tsv)
Fetch ==
    /\ pc = "fetch"
    /\ LET day == strftime_date(iterator)
       IN /\ fetched' = [fetched EXCEPT ![day] = @ + 1]
          /\ \/ \E rep_tsv \in ReportTexts :
                  /\ fetchLog' = Append(fetchLog,
                        [day |-> day, at |-> iterator, ok |-> TRUE, text |-> rep_tsv])
                  /\ rep' = tsv_to_list(rep_tsv)
                  /\ index' = 1
                  /\ events' = Append(events, "F")
                  /\ pc' = "rows"
                  /\ UNCHANGED <<allOk, crashDay, logged>>
             \/ /\ fetchLog' = Append(fetchLog,
                        [day |-> day, at |-> iterator, ok |-> FALSE, text |-> <<>>])
                /\ Fail
                /\ UNCHANGED <<rep, index, events>>
    /\ UNCHANGED <<config, state, persisted, clock, bookmark, extraction_time,
                   iterator, new_counts, emitted, stateWrites, input, runs,
                   doneDays, doneBefore>>
    /\ UNCHANGED <<origin, arg_tsv, data>>

\* the pass of the row loop with a ValidationError caught and the row skipped
emit_row_skip_invalid ==
    /\ pc = "rows"
    /\ index <= Len(rep)
    /\ \/ /\ emitted' = Append(emitted,
                [day |-> strftime_date(iterator), line_id |-> line_id_of(index),
                 data |-> rep[index], time_extracted |-> extraction_time])
          /\ events' = Append(events, "R")
          /\ new_counts' = new_counts + 1
          /\ index' = index + 1
          /\ UNCHANGED <<pc, allOk, crashDay, logged>>
       \/ /\ index' = index + 1
          /\ UNCHANGED <<emitted, events, new_counts, pc, allOk, crashDay, logged>>
    /\ UNCHANGED <<config, state, persisted, clock, bookmark, extraction_time,
                   iterator, rep, fetchLog, stateWrites, input, runs, fetched,
                   doneDays, doneBefore>>
    /\ UNCHANGED <<origin, arg_tsv, data>>

\* one pass of "for index, line in enumerate(rep, start=1)"
EmitRow ==
    /\ pc = "rows"
    /\ index <= Len(rep)
    /\ \/ /\ emitted' = Append(emitted,
                [day |-> strftime_date(iterator), line_id |-> line_id_of(index),
                 data |-> rep[index], time_extracted |-> extraction_time])
          /\ events' = Append(events, "R")
          /\ new_counts' = new_counts + 1
          /\ index' = index + 1
          /\ UNCHANGED <<pc, allOk, crashDay, logged>>
       \/ /\ Fail
          /\ UNCHANGED <<emitted, events, new_counts, index>>
    /\ UNCHANGED <<config, state, persisted, clock, bookmark, extraction_time,
                   iterator, rep, fetchLog, stateWrites, input, runs, fetched,
                   doneDays, doneBefore>>
    /\ UNCHANGED <<origin, arg_tsv, data>>

\* singer.write_bookmark(Context.state, stream_name, 'start_date', ...)
WriteBookmark ==
    /\ pc = "rows"
    /\ index > Len(rep)
    /\ state' = write_bookmark(state, stream_name, bookmark_value(iterator))
    /\ events' = Append(events, "B")
    /\ doneDays' = doneDays \cup {d \in {strftime_date(iterator)} : FullyEmitted(d)}
    /\ pc' = "write_state"
    /\ UNCHANGED <<config, persisted, clock, bookmark, extraction_time,
                   iterator, rep, index, new_counts, fetchLog, emitted,
                   stateWrites, input, runs, fetched, doneBefore, allOk, crashDay>>
    /\ UNCHANGED <<logged, origin, arg_tsv, data>>

\* singer.write_state(Context.state) inside the loop
WriteState ==
    /\ pc = "write_state"
    /\ persisted' = state
    /\ stateWrites' = Append(stateWrites, state)
    /\ events' = Append(events, "W")
    /\ pc' = "advance"
    /\ UNCHANGED <<config, state, clock, bookmark, extraction_time, iterator,
                   rep, index, new_counts, fetchLog, emitted, input, runs,
                   fetched, doneDays, doneBefore, allOk, crashDay>>
    /\ UNCHANGED <<logged, origin, arg_tsv, data>>

\* iterator += delta
Advance ==
    /\ pc = "advance"
    /\ iterator' = iterator + delta
    /\ pc' = "loop"
    /\ UNCHANGED <<config, state, persisted, clock, bookmark, extraction_time,
                   rep, index, new_counts, fetchLog, emitted, stateWrites,
                   events, input, runs, fetched, doneDays, doneBefore, allOk,
                   crashDay>>
    /\ UNCHANGED <<logged, origin, arg_tsv, data>>

\* singer.write_state(Context.state) after the loop
final_write_skipped ==
    /\ pc = "final"
    /\ pc' = "done"
    /\ crashDay' = NoDay
    /\ UNCHANGED <<config, state, persisted, clock, bookmark, extraction_time,
                   iterator, rep, index, new_counts, fetchLog, emitted,
                   stateWrites, events, input, runs, fetched, doneDays,
                   doneBefore, allOk>>
    /\ UNCHANGED <<logged, origin, arg_tsv, data>>

FinalWriteState ==
    /\ pc = "final"
    /\ persisted' = state
    /\ stateWrites' = Append(stateWrites, state)
    /\ events' = Append(events, "W")
    /\ pc' = "done"
    /\ crashDay' = NoDay
    /\ UNCHANGED <<config, state, clock, bookmark, extraction_time, iterator,
                   rep, index, new_counts, fetchLog, emitted, input, runs,
                   fetched, doneDays, doneBefore, allOk>>
    /\ UNCHANGED <<logged, origin, arg_tsv, data>>

\* the process is terminated from outside
Kill ==
    /\ pc \in Running
    /\ pc' = "killed"
    /\ allOk' = FALSE
    /\ crashDay' = IF pc \in InDay THEN strftime_date(iterator) ELSE NoDay
    /\ UNCHANGED <<config, state, persisted, clock, bookmark, extraction_time,
                   iterator, rep, index, new_counts, fetchLog, emitted,
                   stateWrites, events, input, runs, fetched, doneDays,
                   doneBefore>>
    /\ UNCHANGED <<logged, origin, arg_tsv, data>>

Next ==
    \/ Tick
    \/ StartRun
    \/ ParseBookmark
    \/ CaptureTime
    \/ LoopTest
    \/ Fetch
    \/ EmitRow
    \/ WriteBookmark
    \/ WriteState
    \/ Advance
    \/ FinalWriteState
    \/ Kill

Spec == Init /\ [][Next]_vars

(* ------------------------ derived quantities --------------------------- *)
\* the bookmark a run started now would resume from
PersistedTime == strptime(get_bookmark(persisted, config, stream_name))
\* the bookmark the current run resumed from
InputTime == strptime(get_bookmark(input, config, stream_name))
CountOf(tag) == Cardinality({j \in DOMAIN events : events[j] = tag})

(* ------------------------------ claims --------------------------------- *)

\* C1: a run that ends without failure, started at bookmark D0 with
\* extraction_time = D0 + k days + h hours (0 <= h < 24), has called the
\* fetcher exactly k times, for the days D0, D0+1, ..., D0+k-1 in that order.
C1_WindowFetches ==
    (pc = "done" /\ extraction_time >= bookmark) =>
        LET k == (extraction_time - bookmark) \div DayHours
        IN /\ Len(fetchLog) = k
           /\ \A i \in 1..Len(fetchLog) :
                 /\ fetchLog[i].ok
                 /\ fetchLog[i].at = bookmark + (i - 1) * DayHours
                 /\ fetchLog[i].day = strftime_date(bookmark) + (i - 1)

\* a finished run whose extraction time is exactly two days after the bookmark
C1_Witness ==
    /\ pc = "done"
    /\ extraction_time = bookmark + 2 * DayHours
    /\ Len(fetchLog) = 2

\* C2: after a successful run that started at bookmark D0 and processed
\* k >= 1 days, the persisted bookmark of the stream is D0 + k days.
C2_FinalBookmarkIsNextDay ==
    (pc = "done" /\ Len(fetchLog) >= 1) =>
        /\ ~no_bookmark(persisted, stream_name)
        /\ persisted.bookmarks[stream_name]
               = strftime_bookmark(bookmark + Len(fetchLog) * DayHours)

\* C3: as long as every run completes without error and without being
\* killed, every day is fetched at most once over all runs.
C3_EachDayFetchedOnce ==
    allOk => \A d \in Days : fetched[d] <= 1

\* C4: the persisted bookmark moves past a day X of the current run only
\* after X was fetched and every record of X was emitted, and a run resumed
\* from bookmark D never fetches a day earlier than D.
C4_PersistAfterEmission ==
    (pc # "idle" /\ InputTime # NoTime) =>
        /\ \A d \in Days :
              (strftime_date(InputTime) <= d /\ d < strftime_date(PersistedTime))
                  => FullyEmitted(d)
        /\ \A i \in DOMAIN fetchLog :
              /\ fetchLog[i].at >= InputTime
              /\ fetchLog[i].day >= strftime_date(InputTime)

\* the persisted bookmark has moved past the first day of the run, which had records
C4_Witness ==
    /\ pc \in Running
    /\ InputTime # NoTime
    /\ strftime_date(PersistedTime) > strftime_date(InputTime)
    /\ EmittedFor(strftime_date(InputTime)) = 2

\* C5: when the process is killed while day D is in process, the persisted
\* bookmark has not advanced past D, and the next run re-fetches no day that
\* was already fully emitted other than D.
C5_CrashRefetchesOnlyCrashDay ==
    /\ (pc = "killed" /\ crashDay # NoDay) =>
           strftime_date(PersistedTime) <= crashDay
    /\ (pc # "killed" /\ crashDay # NoDay) =>
           \A i \in DOMAIN fetchLog :
               fetchLog[i].day \in doneBefore => fetchLog[i].day = crashDay

\* C6: the persisted bookmark never decreases, every change of it is an
\* increase by exactly one day, and it is never below the bookmark the
\* current run started from.
C6_BookmarkMonotonic ==
    /\ [](PersistedTime >= InputTime)
    /\ [][LET before == strptime(get_bookmark(persisted, config, stream_name))
              after == strptime(get_bookmark(persisted', config', stream_name))
          IN \/ after = before
             \/ before # NoTime /\ after = before + DayHours]_vars

\* the second run, after a failed or killed one, has moved the bookmark on
C6_Witness ==
    /\ runs = 2
    /\ ~allOk
    /\ InputTime # NoTime
    /\ PersistedTime = InputTime + DayHours

\* a state message written by the loop (not the one after the loop)
IsDayWrite(i) == i \in DOMAIN stateWrites /\ (pc # "done" \/ i < Len(stateWrites))

\* C7 as stated: every bookmark value that query_report writes is a
\* whole-day boundary, whatever well-formed start_date or stored bookmark
\* the run started from.
C7_AlwaysWholeDay ==
    \A i \in DOMAIN stateWrites :
        IsDayWrite(i) => stateWrites[i].bookmarks[stream_name].tod = 0

\* C7 amended: when the run starts from a whole-day boundary, every bookmark
\* value that query_report writes is a whole-day boundary.
C7_WholeDayFromWholeDay ==
    (InputTime # NoTime /\ InputTime % DayHours = 0) =>
        \A i \in DOMAIN stateWrites :
            IsDayWrite(i) =>
                /\ stateWrites[i].bookmarks[stream_name].wf
                /\ stateWrites[i].bookmarks[stream_name].tod = 0

\* two bookmarks written by a run that started at midnight and captured a
\* time that is not midnight
C7_Witness ==
    /\ InputTime # NoTime
    /\ InputTime % DayHours = 0
    /\ extraction_time # NoTime
    /\ extraction_time % DayHours # 0
    /\ IsDayWrite(2)

\* C8: when the captured extraction_time is less than one day after the
\* starting bookmark the run fetches nothing, emits nothing, leaves the
\* state as it was, writes the state once and ends in "done", never "failed".
C8_CaughtUp ==
    (bookmark # NoTime /\ extraction_time # NoTime
         /\ extraction_time < bookmark + DayHours) =>
        /\ pc \in {"loop", "final", "done", "killed"}
        /\ fetchLog = <<>>
        /\ emitted = <<>>
        /\ new_counts = 0
        /\ state = input
        /\ persisted = input
        /\ stateWrites = IF pc = "done" THEN <<input>> ELSE <<>>

\* a caught-up run has ended, half a day after its bookmark
C8_Witness ==
    /\ pc = "done"
    /\ bookmark # NoTime
    /\ extraction_time = bookmark + TickHours
    /\ stateWrites = <<input>>

\* empty text, or a header row with or without its line end
EmptyOrHeaderOnly(t) ==
    \/ t = <<>>
    \/ \A i \in 1..Len(t) : t[i] = "\n" => i = Len(t)

\* C9: a day whose fetch returns an empty or header-only text has no record
\* emitted, does not fail the run, and gets its bookmark update and state
\* write before the run goes on to the next day or ends.
C9_EmptyDay ==
    \A i \in DOMAIN fetchLog :
        (fetchLog[i].ok /\ EmptyOrHeaderOnly(fetchLog[i].text)) =>
            /\ EmittedFor(fetchLog[i].day) = 0
            /\ ~(pc = "failed" /\ i = Len(fetchLog))
            /\ (i < Len(fetchLog) \/ pc \in {"loop", "final", "done"}) =>
                   /\ CountOf("B") >= i
                   /\ Len(stateWrites) >= i
                   /\ stateWrites[i].bookmarks[stream_name]
                          = strftime_bookmark(fetchLog[i].at)

\* a header-only day followed by the fetch of the next day
C9_Witness ==
    /\ Len(fetchLog) = 2
    /\ fetchLog[1].ok
    /\ fetchLog[1].text = HeaderLineText
    /\ fetchLog[2].ok

\* C10: a successful run that processed k days has written the state k + 1
\* times: once per day, right after that day's bookmark update and before the
\* next fetch, and once at the end with the same content as the last per-day
\* write; nothing is emitted after the final write.
C10_StateWrites ==
    pc = "done" =>
        LET k == Len(fetchLog)
            n == Len(events)
        IN /\ Len(stateWrites) = k + 1
           /\ CountOf("W") = k + 1
           /\ CountOf("B") = k
           /\ CountOf("F") = k
           /\ events[n] = "W"
           /\ \A j \in 1..n :
                 /\ events[j] = "B" => (j < n /\ events[j + 1] = "W")
                 /\ (events[j] = "W" /\ j < n) => (j > 1 /\ events[j - 1] = "B")
                 /\ (events[j] = "W" /\ j < n - 1) => events[j + 1] = "F"
                 /\ (events[j] = "W" /\ j = n - 1) => events[j + 1] = "W"
                 /\ events[j] = "F" => (j = 1 \/ events[j - 1] = "W")
           /\ k >= 1 => stateWrites[k + 1] = stateWrites[k]
           /\ persisted = stateWrites[k + 1]

\* a finished run over two days that emitted records
C10_Witness ==
    /\ pc = "done"
    /\ Len(fetchLog) = 2
    /\ Len(emitted) >= 2

(* ------------- the rows of a text, stated by positions ----------------- *)
\* These operators describe what the parser is expected to return without
\* using any of its code: pieces are cut at the positions of the separator.
SepPositions(s, sep) == {i \in 1..Len(s) : s[i] = sep}
NthOf(P, k) == CHOOSE i \in P : Cardinality({j \in P : j < i}) = k - 1
NumPieces(s, sep) == Cardinality(SepPositions(s, sep)) + 1
Piece(s, sep, k) ==
    LET P == SepPositions(s, sep)
        lo == IF k = 1 THEN 1 ELSE NthOf(P, k - 1) + 1
        hi == IF k = Cardinality(P) + 1 THEN Len(s) ELSE NthOf(P, k) - 1
    IN SubSeq(s, lo, hi)
Trimmed(v) ==
    LET keep == {i \in 1..Len(v) : v[i] \notin Whitespace}
    IN IF keep = {} THEN <<>>
       ELSE SubSeq(v, CHOOSE i \in keep : \A j \in keep : i <= j,
                      CHOOSE i \in keep : \A j \in keep : j <= i)
KeyOf(h) ==
    [i \in 1..Len(h) |->
        CASE h[i] = "A" -> "a" [] h[i] = "B" -> "b" [] h[i] = " " -> "_"
          [] OTHER -> h[i]]
HeaderRow(t) == Piece(t, "\n", 1)
\* the numbers of the non-empty lines after the header
DataLineNumbers(t) == {k \in 2..NumPieces(t, "\n") : Piece(t, "\n", k) # <<>>}
DataLine(t, r) == Piece(t, "\n", NthOf(DataLineNumbers(t), r))
\* number of columns of the line that have a header column
Width(t, line) ==
    LET c == NumPieces(line, "\t")
        h == NumPieces(HeaderRow(t), "\t")
    IN IF c < h THEN c ELSE h
KeyAt(t, i) == KeyOf(Piece(HeaderRow(t), "\t", i))
\* obj holds exactly the first Width header keys
HasKeys(t, line, obj) == DOMAIN obj = {KeyAt(t, i) : i \in 1..Width(t, line)}
\* every one of these keys maps to the trimmed column at the same position
ValuesByPosition(t, line, obj) ==
    \A i \in 1..Width(t, line) : obj[KeyAt(t, i)] = Trimmed(Piece(line, "\t", i))
\* every key maps to the trimmed column at the last position that bears it
ValuesByLastPosition(t, line, obj) ==
    \A i \in 1..Width(t, line) :
        (\A j \in (i + 1)..Width(t, line) : KeyAt(t, j) # KeyAt(t, i))
            => obj[KeyAt(t, i)] = Trimmed(Piece(line, "\t", i))

\* C11: within a run records are emitted in chronological day order, all
\* records of a day before any record of a later day, and within a day in
\* the order of the non-empty data lines of the text fetched for that day.
C11_EmissionOrder ==
    \A j \in DOMAIN emitted :
        LET d == emitted[j].day
            n == Cardinality({m \in 1..j : emitted[m].day = d})
        IN /\ \A m \in 1..(j - 1) : emitted[m].day <= d
           /\ \E i \in DOMAIN fetchLog :
                 /\ fetchLog[i].day = d
                 /\ fetchLog[i].ok
                 /\ n <= Cardinality(DataLineNumbers(fetchLog[i].text))
                 /\ HasKeys(fetchLog[i].text, DataLine(fetchLog[i].text, n),
                            emitted[j].data)
                 /\ ValuesByLastPosition(fetchLog[i].text,
                            DataLine(fetchLog[i].text, n), emitted[j].data)
           /\ (j > 1 /\ emitted[j - 1].day # d) =>
                 \E i \in DOMAIN fetchLog :
                     /\ i > 1
                     /\ fetchLog[i].day = d
                     /\ \A m \in 1..(j - 1) : emitted[m].day <= fetchLog[i - 1].day

\* two days with two rows each have been emitted
C11_Witness ==
    /\ Len(emitted) = 4
    /\ emitted[2].day < emitted[3].day
    /\ emitted[1].data # emitted[2].data

\* C12: when the fetch for day D raises, the run is failed, D was attempted
\* once, no record of D or of a later day is emitted, nothing is written
\* after the failure, the persisted state is the one written for the last
\* completed day (the input state if there is none), and a run that starts
\* afterwards starts from the persisted state.
C12_FetchFailure ==
    /\ \A i \in DOMAIN fetchLog :
          ~fetchLog[i].ok =>
              /\ pc = "failed"
              /\ i = Len(fetchLog)
              /\ Cardinality({m \in DOMAIN fetchLog :
                                  fetchLog[m].day = fetchLog[i].day}) = 1
              /\ \A j \in DOMAIN emitted : emitted[j].day < fetchLog[i].day
              /\ Len(stateWrites) = i - 1
              /\ CountOf("W") = i - 1
              /\ CountOf("B") = i - 1
              /\ (events = <<>> \/ events[Len(events)] = "W")
              /\ persisted = IF i = 1 THEN input ELSE stateWrites[i - 1]
              /\ i > 1 => persisted.bookmarks[stream_name]
                              = strftime_bookmark(fetchLog[i - 1].at)
              /\ "critical" \in logged
    /\ pc = "get_bookmark" => (state = persisted /\ input = persisted)

\* the fetch of the second day of a run has raised
C12_Witness ==
    /\ pc = "failed"
    /\ Len(fetchLog) = 2
    /\ ~fetchLog[2].ok
    /\ Len(emitted) = 2

(* ------------------- the parser checked on its own --------------------- *)
Chars == {"A", "b", " ", "\t", "\n"}
Texts == UNION {[1..n -> Chars] : n \in 0..MaxLen}

ParseInit ==
    /\ pc = "parse"
    /\ arg_tsv \in Texts
    /\ data = <<>>
    /\ config = DateStr(0, 0, TRUE)
    /\ persisted = [bookmarks |-> EmptyBookmarks, other |-> "none"]
    /\ state = persisted
    /\ input = persisted
    /\ origin = persisted
    /\ clock = 0
    /\ bookmark = NoTime
    /\ extraction_time = NoTime
    /\ iterator = NoTime
    /\ rep = <<>>
    /\ index = 0
    /\ new_counts = 0
    /\ fetchLog = <<>>
    /\ emitted = <<>>
    /\ stateWrites = <<>>
    /\ events = <<>>
    /\ runs = 0
    /\ fetched = [d \in Days |-> 0]
    /\ doneDays = {}
    /\ doneBefore = {}
    /\ allOk = TRUE
    /\ crashDay = NoDay
    /\ logged = {}

\* data = tsv_to_list(tsv)
ParseCall ==
    /\ pc = "parse"
    /\ data' = tsv_to_list(arg_tsv)
    /\ pc' = "parsed"
    /\ UNCHANGED <<config, state, persisted, clock, bookmark, extraction_time,
                   iterator, rep, index, new_counts, fetchLog, emitted,
                   stateWrites, events, input, runs, fetched, doneDays,
                   doneBefore, allOk, crashDay, logged, origin, arg_tsv>>

ParseNext == ParseCall

ParseSpec == ParseInit /\ [][ParseNext]_vars

\* C13 as stated: tsv_to_list returns one mapping per non-empty data line, in
\* row order; the mapping of a row with c columns holds exactly the first
\* min(c, |H|) header keys, each mapped to the trimmed column at the same
\* position.
C13_RowsByPosition ==
    pc = "parsed" =>
        /\ Len(data) = Cardinality(DataLineNumbers(arg_tsv))
        /\ \A r \in DOMAIN data :
              /\ HasKeys(arg_tsv, DataLine(arg_tsv, r), data[r])
              /\ ValuesByPosition(arg_tsv, DataLine(arg_tsv, r), data[r])

\* C13 amended: as above, but a key that several of the first min(c, |H|)
\* header columns bear is mapped to the trimmed column at the last of their
\* positions.
C13_RowsByLastPosition ==
    pc = "parsed" =>
        /\ Len(data) = Cardinality(DataLineNumbers(arg_tsv))
        /\ \A r \in DOMAIN data :
              /\ HasKeys(arg_tsv, DataLine(arg_tsv, r), data[r])
              /\ ValuesByLastPosition(arg_tsv, DataLine(arg_tsv, r), data[r])

\* a parsed text whose two header columns bear the same key and whose first
\* data row has two different columns
C13_Witness ==
    /\ pc = "parsed"
    /\ Len(data) = 1
    /\ NumPieces(HeaderRow(arg_tsv), "\t") = 2
    /\ KeyAt(arg_tsv, 1) = KeyAt(arg_tsv, 2)
    /\ NumPieces(DataLine(arg_tsv, 1), "\t") = 2
    /\ Trimmed(Piece(DataLine(arg_tsv, 1), "\t", 1))
           # Trimmed(Piece(DataLine(arg_tsv, 1), "\t", 2))

\* C14: the records emitted for a day carry line_id 1, 2, ..., N in row
\* order, N being the number of mappings parsed for the day; the numbering
\* starts again at 1 for every day.
C14_LineIds ==
    /\ \A j \in DOMAIN emitted :
          emitted[j].line_id
              = Cardinality({m \in 1..j : emitted[m].day = emitted[j].day})
    /\ \A i \in DOMAIN fetchLog :
          (fetchLog[i].ok /\ (i < Len(fetchLog) \/ pc \in {"write_state", "advance",
                                                          "loop", "final", "done"}))
              => EmittedFor(fetchLog[i].day) = Len(tsv_to_list(fetchLog[i].text))

\* the first record of the second day, after two records of the first day
C14_Witness ==
    /\ Len(emitted) >= 3
    /\ emitted[2].line_id = 2
    /\ emitted[3].day > emitted[2].day
    /\ emitted[3].line_id = 1

\* the run failed in the row loop of the last day fetched
RowFailed == pc = "failed" /\ fetchLog # <<>> /\ fetchLog[Len(fetchLog)].ok

\* C15: when normalizing row r of day D fails the run is failed; rows
\* 1..r-1 of D have been emitted, nothing later is emitted, there is no
\* bookmark update or state write for D, and the persisted bookmark is the
\* one written for the last completed day.
C15_RowFailure ==
    /\ pc = "rows" => EmittedFor(strftime_date(iterator)) = index - 1
    /\ RowFailed =>
          LET n == Len(fetchLog)
              d == fetchLog[n].day
          IN /\ index <= Len(rep)
             /\ rep = tsv_to_list(fetchLog[n].text)
             /\ EmittedFor(d) = index - 1
             /\ \A j \in DOMAIN emitted :
                   /\ emitted[j].day <= d
                   /\ emitted[j].day = d => emitted[j].line_id < index
             /\ CountOf("B") = n - 1
             /\ Len(stateWrites) = n - 1
             /\ state = persisted
             /\ persisted = IF n = 1 THEN input ELSE stateWrites[n - 1]
             /\ n > 1 => persisted.bookmarks[stream_name]
                             = strftime_bookmark(fetchLog[n - 1].at)
             /\ "critical" \in logged

\* the second row of the second day failed
C15_Witness ==
    /\ RowFailed
    /\ Len(fetchLog) = 2
    /\ index = 2
    /\ Len(emitted) = 3

\* C16: when the stored bookmark or, if none is stored, the configured
\* start_date does not match %Y-%m-%dT%H:%M:%SZ, the run fails before any
\* fetch, record or state write, and the stored state stays as it was.
C16_MalformedBookmark ==
    (pc \notin {"idle"} /\ ~get_bookmark(input, config, stream_name).wf) =>
        /\ pc \in {"get_bookmark", "failed", "killed"}
        /\ bookmark = NoTime
        /\ fetchLog = <<>>
        /\ emitted = <<>>
        /\ stateWrites = <<>>
        /\ events = <<>>
        /\ state = input
        /\ persisted = input
        /\ pc = "failed" => "critical" \in logged

\* a run has failed on a malformed stored bookmark
C16_Witness ==
    /\ pc = "failed"
    /\ ~no_bookmark(input, stream_name)
    /\ ~input.bookmarks[stream_name].wf

\* C17: the extraction time is set once per run, before the first fetch; no
\* day D with D + 1 day > extraction_time is fetched however far the clock
\* has advanced, and every record of the run is tagged with that value.
C17_CapturedOnce ==
    /\ [](/\ \A i \in DOMAIN fetchLog :
                /\ extraction_time # NoTime
                /\ fetchLog[i].at + DayHours <= extraction_time
          /\ \A j \in DOMAIN emitted :
                emitted[j].time_extracted = extraction_time
          /\ extraction_time # NoTime => extraction_time <= clock)
    /\ [][extraction_time' # extraction_time =>
              \/ pc = "now" /\ extraction_time = NoTime /\ fetchLog = <<>>
              \/ pc \in Stopped /\ extraction_time' = NoTime]_vars

\* a run has ended although, by the clock, one more day has become complete
C17_Witness ==
    /\ pc = "done"
    /\ Len(emitted) >= 2
    /\ extraction_time < iterator + DayHours
    /\ clock >= iterator + DayHours

\* C18: when a run is done (loop finished, final state written) the
\* per-stream counts of new records have been logged.
C18_CountsLogged ==
    pc = "done" => "counts" \in logged

\* the bookmark the first run started from
OriginTime == strptime(get_bookmark(origin, config, stream_name))

\* C19: over runs that may fail or be killed at any step, every day from the
\* first start date up to, not including, the day of the persisted bookmark
\* has been fully emitted by some run, and the days one run fetches are
\* consecutive, starting at the bookmark the run resumed from.
C19_NoDaySkipped ==
    /\ OriginTime # NoTime =>
          \A d \in Days :
              (strftime_date(OriginTime) <= d /\ d < strftime_date(PersistedTime))
                  => d \in doneDays
    /\ fetchLog # <<>> => fetchLog[1].at = InputTime
    /\ \A i \in 2..Len(fetchLog) :
          /\ fetchLog[i].at = fetchLog[i - 1].at + DayHours
          /\ fetchLog[i].day = fetchLog[i - 1].day + 1

\* after a failed or killed run the second run has fetched two days and
\* taken the persisted bookmark one day past the first start date
C19_Witness ==
    /\ runs = 2
    /\ ~allOk
    /\ OriginTime # NoTime
    /\ PersistedTime = OriginTime + DayHours
    /\ Len(fetchLog) = 2
    /\ Len(emitted) >= 2

\* st differs from the input state of the run in nothing but the bookmark of
\* the stream summary_sales_report
SameButBookmark(st) ==
    /\ st.other = input.other
    /\ DOMAIN st.bookmarks \ {stream_name} = DOMAIN input.bookmarks \ {stream_name}
    /\ \A s \in DOMAIN input.bookmarks \ {stream_name} :
          st.bookmarks[s] = input.bookmarks[s]

\* C20: every state a run holds or writes differs from its input state in
\* nothing but the start_date bookmark of summary_sales_report.
C20_Frame ==
    pc # "idle" =>
        /\ SameButBookmark(state)
        /\ SameButBookmark(persisted)
        /\ \A i \in DOMAIN stateWrites : SameButBookmark(stateWrites[i])

\* two per-day writes of a run whose input has another stream's bookmark and
\* another key
C20_Witness ==
    /\ OtherStream \in DOMAIN input.bookmarks
    /\ input.other = "extra"
    /\ Len(stateWrites) >= 2
    /\ stream_name \in DOMAIN persisted.bookmarks

====
